---- MODULE Spec2Model ----
(***************************************************************************)
(* State-machine model of the gRPC (native) instrumentation:               *)
(* GrpcNativeInstrumentation in                                            *)
(* experimental/packages/opentelemetry-instrumentation-grpc/src/grpc/      *)
(* index.ts.  Functions are modelled by the number of instrumentation      *)
(* layers wrapped around the original implementation; one execution of a   *)
(* wrapper is recorded with everything it did (span, callback wrap, what   *)
(* it passed on and what it returned).                                     *)
(***************************************************************************)
EXTENDS Integers, Sequences, FiniteSets, TLC

VARIABLES
    config,     \* the instrumentation's current configuration (getConfig())
    layers,     \* per patch target: number of wrappers around the original
    thrown,     \* TRUE once a patch/unpatch callback has raised an error
    side,       \* the side of the RPC library the process uses
    handlers,   \* Server.handlers: name -> handler entry (type, func layers)
    calls,      \* per server call id: the record of the call
    client,     \* the client constructor made by a (patched) factory
    ccalls,     \* per client call id: the record of the call
    lastEvent,  \* the last load/unload event and the wrapper counts before it
    hooks,      \* module hook singleton: the registrations, in order
    requireOnly,\* OTEL_REQUIRE_ONLY when the singleton was created
    lastRequire,\* the last require() and the onRequire calls it caused
    metadataCapture \* _metadataCapture: the four capture functions held

hookVars == <<hooks, requireOnly, lastRequire>>

vars == <<config, layers, thrown, side, handlers, calls, client, ccalls,
          lastEvent, hookVars, metadataCapture>>

-----------------------------------------------------------------------------
(* Bounds of the model *)

\* register calls made for one method name
MaxRegs == 2
\* events a streaming call emits
MaxEvents == 2
\* cap on the wrappers around one function (only reached by faulty variants)
MaxLayers == 2
\* invocations of call.sendMetadata during one call
MaxSends == 2
\* registrations with the module hook singleton
MaxHooks == 3

-----------------------------------------------------------------------------
(* Values *)

\* unqualified RPC method names of a client's method table
Methods == {"m1", "m2"}
\* own property names a client prototype may hold
Props == Methods \cup {"M1"}
\* method names registered on the server
ServerNames == {"m1"}
\* the server call and the client call that are followed
CallIds == {1}
ClientCallIds == {1}

\* the four call shapes of the switch in func, and any other registration type
UnaryShapes == {"unary", "client_stream"}
StreamShapes == {"server_stream", "bidi"}
Shapes == UnaryShapes \cup StreamShapes
Types == Shapes \cup {"other"}

\* patch targets: Server.prototype.register and makeGenericClientConstructor
\* of the grpc module exports, makeClientConstructor of the internal client file
Targets == {"register", "makeGenericClientConstructor", "makeClientConstructor"}
Factories == {"makeGenericClientConstructor", "makeClientConstructor"}

\* ignoreGrpcMethods, as the set of method names its matchers match
IgnoreLists == {{}, {"m1"}, {"M1"}}
\* the lists that differ on the names the side uses
IgnoreListsOf(s) ==
    {ig \in IgnoreLists : s = "server" => ig \subseteq ServerNames}

NoHandler == [registered |-> FALSE, type |-> "none", func |-> <<>>,
              regs |-> 0, origRegs |-> 0]
NoCallback == -1

-----------------------------------------------------------------------------
(* InstrumentationBase: isWrapped, _wrap, _unwrap on a function given by   *)
(* its number of wrappers.                                                 *)

IsWrapped(d) == d > 0

Wrap(d) == d + 1

\* unwrapping a function that is not wrapped logs and changes nothing
Unwrap(d) == IF d > 0 THEN d - 1 ELSE d

-----------------------------------------------------------------------------
(* Patch lifecycle: the patch and unpatch callbacks handed to the module   *)
(* hook host, as functions of the targets' wrapper counts.                 *)

\* a faulty patch callback that wraps without unwrapping first
PatchMainNoUnwrap(l) ==
    [l EXCEPT !["register"] = Wrap(@),
              !["makeGenericClientConstructor"] = Wrap(@)]

\* init(): patch callback of the grpc module definition
PatchMain(l) ==
    LET l1 == IF IsWrapped(l["register"])
              THEN [l EXCEPT !["register"] = Unwrap(@)] ELSE l
        l2 == [l1 EXCEPT !["register"] = Wrap(@)]
        l3 == IF IsWrapped(l2["makeGenericClientConstructor"])
              THEN [l2 EXCEPT !["makeGenericClientConstructor"] = Unwrap(@)]
              ELSE l2
    IN  [l3 EXCEPT !["makeGenericClientConstructor"] = Wrap(@)]

\* a faulty unpatch callback without the `moduleExports === undefined` guard:
\* reading Server of undefined raises a TypeError
UnpatchMainNoGuard(defined, l) ==
    IF defined
    THEN [layers |-> [l EXCEPT !["register"] = Unwrap(@)], thrown |-> FALSE]
    ELSE [layers |-> l, thrown |-> TRUE]

\* init(): unpatch callback of the grpc module definition
UnpatchMain(defined, l) ==
    IF ~defined
    THEN [layers |-> l, thrown |-> FALSE]
    ELSE [layers |-> [l EXCEPT !["register"] = Unwrap(@)], thrown |-> FALSE]

\* _getInternalPatchs: onPatch
OnPatch(l) ==
    LET l1 == IF IsWrapped(l["makeClientConstructor"])
              THEN [l EXCEPT !["makeClientConstructor"] = Unwrap(@)] ELSE l
    IN  [l1 EXCEPT !["makeClientConstructor"] = Wrap(@)]

\* _getInternalPatchs: onUnPatch
OnUnPatch(defined, l) ==
    IF ~defined
    THEN [layers |-> l, thrown |-> FALSE]
    ELSE [layers |-> [l EXCEPT !["makeClientConstructor"] = Unwrap(@)],
          thrown |-> FALSE]

-----------------------------------------------------------------------------
(* Configuration *)

\* _methodIsIgnored(name, ignoreGrpcMethods)
MethodIsIgnored(name, ignoreGrpcMethods) == name \in ignoreGrpcMethods

\* shouldNotTraceServerCall.call(instrumentation, call, name): the ignore
\* list of the configuration in force when the handler is invoked
ShouldNotTraceServerCall(cfg, name) ==
    MethodIsIgnored(name, cfg.ignoreGrpcMethods)

-----------------------------------------------------------------------------
(* Server side: the wrapper installed on handlerSet.func by the patched    *)
(* register.  One execution of the wrapper follows a plan:                 *)
(*   span        number of spans it starts                                 *)
(*   sm          whether it wraps call.sendMetadata                        *)
(*   completion  how its span is completed: through the patched callback,  *)
(*               through the call's events, or not at all                  *)
(*   callsInner  whether it invokes originalFunc                           *)
(*   passCb      the callback it hands to originalFunc                     *)
(*   ret         what it returns                                           *)
(*   onThrow     what it does with an error thrown by originalFunc         *)

RetOfResult(originalResult) == IF originalResult THEN "true" ELSE "false"

\* func, `if (shouldNotTraceServerCall...)` branch
IgnoredPath(type, originalResult) ==
    CASE type \in UnaryShapes ->
           [span |-> 0, sm |-> FALSE, completion |-> "none",
            callsInner |-> TRUE, passCb |-> "same", ret |-> "inner",
            onThrow |-> "propagate"]
      [] type \in StreamShapes ->
           [span |-> 0, sm |-> FALSE, completion |-> "none",
            callsInner |-> TRUE, passCb |-> "none", ret |-> "inner",
            onThrow |-> "propagate"]
      [] OTHER ->
           [span |-> 0, sm |-> FALSE, completion |-> "none",
            callsInner |-> FALSE, passCb |-> "none",
            ret |-> RetOfResult(originalResult), onThrow |-> "propagate"]

\* a faulty traced path that hands the callback on without patching it
TracedPathPlainCallback(type, originalResult) ==
    CASE type \in UnaryShapes ->
           [span |-> 1, sm |-> TRUE, completion |-> "none",
            callsInner |-> TRUE, passCb |-> "same", ret |-> "undefined",
            onThrow |-> "propagate"]
      [] type \in StreamShapes ->
           [span |-> 1, sm |-> TRUE, completion |-> "events",
            callsInner |-> TRUE, passCb |-> "none", ret |-> "undefined",
            onThrow |-> "propagate"]
      [] OTHER ->
           [span |-> 1, sm |-> TRUE, completion |-> "none",
            callsInner |-> FALSE, passCb |-> "none", ret |-> "undefined",
            onThrow |-> "propagate"]

\* a faulty traced path that dispatches the streaming shapes to the handler
\* of the callback shapes
TracedPathStreamViaCallback(type, originalResult) ==
    CASE type \in Shapes ->
           [span |-> 1, sm |-> TRUE, completion |-> "callback",
            callsInner |-> TRUE, passCb |-> "patched", ret |-> "undefined",
            onThrow |-> "propagate"]
      [] OTHER ->
           [span |-> 1, sm |-> TRUE, completion |-> "none",
            callsInner |-> FALSE, passCb |-> "none", ret |-> "undefined",
            onThrow |-> "propagate"]

\* a faulty traced path whose switch has no case for client_stream
TracedPathNoClientStreamCase(type, originalResult) ==
    CASE type = "unary" ->
           [span |-> 1, sm |-> TRUE, completion |-> "callback",
            callsInner |-> TRUE, passCb |-> "patched", ret |-> "undefined",
            onThrow |-> "propagate"]
      [] type \in StreamShapes ->
           [span |-> 1, sm |-> TRUE, completion |-> "events",
            callsInner |-> TRUE, passCb |-> "none", ret |-> "undefined",
            onThrow |-> "propagate"]
      [] OTHER ->
           [span |-> 1, sm |-> TRUE, completion |-> "none",
            callsInner |-> FALSE, passCb |-> "none", ret |-> "undefined",
            onThrow |-> "propagate"]

\* a faulty traced path that catches what the handler throws
TracedPathSwallowsThrow(type, originalResult) ==
    CASE type \in UnaryShapes ->
           [span |-> 1, sm |-> TRUE, completion |-> "callback",
            callsInner |-> TRUE, passCb |-> "patched", ret |-> "undefined",
            onThrow |-> "swallow"]
      [] type \in StreamShapes ->
           [span |-> 1, sm |-> TRUE, completion |-> "events",
            callsInner |-> TRUE, passCb |-> "none", ret |-> "undefined",
            onThrow |-> "swallow"]
      [] OTHER ->
           [span |-> 1, sm |-> TRUE, completion |-> "none",
            callsInner |-> FALSE, passCb |-> "none", ret |-> "undefined",
            onThrow |-> "swallow"]

\* func, traced path: startSpan, wrap of sendMetadata, dispatch on the type;
\* the result of context.with is not returned, and nothing catches an error
\* thrown inside it
TracedPath(type, originalResult) ==
    CASE type \in UnaryShapes ->
           [span |-> 1, sm |-> TRUE, completion |-> "callback",
            callsInner |-> TRUE, passCb |-> "patched", ret |-> "undefined",
            onThrow |-> "propagate"]
      [] type \in StreamShapes ->
           [span |-> 1, sm |-> TRUE, completion |-> "events",
            callsInner |-> TRUE, passCb |-> "none", ret |-> "undefined",
            onThrow |-> "propagate"]
      [] OTHER ->
           [span |-> 1, sm |-> TRUE, completion |-> "none",
            callsInner |-> FALSE, passCb |-> "none", ret |-> "undefined",
            onThrow |-> "propagate"]

\* func: the choice between the two paths, made on every invocation
FuncPlan(L, cfg) ==
    IF ShouldNotTraceServerCall(cfg, L.name)
    THEN IgnoredPath(L.type, L.originalResult)
    ELSE TracedPath(L.type, L.originalResult)

\* the callback a wrapper hands on: a callback is the original callback
\* inside n patched callbacks (n >= 0), or NoCallback when none is passed
PassCallback(plan, cb) ==
    CASE plan.passCb = "same" -> cb
      [] plan.passCb = "patched" -> (IF cb = NoCallback THEN 0 ELSE cb) + 1
      [] OTHER -> NoCallback

\* the operations of one execution of func, in the order of its statements
LogOfPlan(plan, k) ==
    (IF plan.span > 0
     THEN <<[op |-> "extract", layer |-> k]>>
          \o [i \in 1..plan.span |-> [op |-> "startSpan", layer |-> k]]
          \o <<[op |-> "captureRequestMetadata", layer |-> k]>>
     ELSE <<>>)
    \o (IF plan.sm THEN <<[op |-> "wrapSendMetadata", layer |-> k]>> ELSE <<>>)
    \o (IF plan.callsInner THEN <<[op |-> "originalFunc", layer |-> k]>>
        ELSE <<>>)

\* a context: whether propagation.extract has put the inbound metadata in
\* it (and for which execution), and the layer whose span is active in it
ActiveContext == [extractedBy |-> 0, span |-> 0]

\* propagation.extract(context.active(), call.metadata, ...)
Extract(ctx, k) == [ctx EXCEPT !.extractedBy = k]

\* trace.setSpan(context.active(), span)
SetSpan(ctx, k) == [ctx EXCEPT !.span = k]

\* the context originalFunc runs in: the one func was called in on the
\* ignored path, the extracted one with the new span on the traced path
InnerContext(plan, ctx, k) ==
    IF plan.span > 0 THEN SetSpan(Extract(ctx, k), k) ELSE ctx

NotRun == [execs |-> <<>>, ret |-> "none", handlerCalls |-> 0,
           handlerCb |-> NoCallback, log |-> <<>>, thrown |-> "none",
           handlerCtx |-> ActiveContext]

\* clientStreamAndUnaryHandler, serverStreamAndBidiHandler: an error thrown
\* by the handler is recorded on the span, the span is ended and the error
\* is thrown on
HandlerThrew(e, err) ==
    [e EXCEPT !.status = "error", !.message = err, !.endCalls = @ + 1]

RECURSIVE RunFunc(_, _, _, _, _, _)
\* handlers[name].func invoked with (call, cb) in context ctx: wrapper k runs
\* and invokes wrapper k-1; wrapper 0 is the handler given to the original
\* register, which returns or throws
RunFunc(func, k, cb, cfg, throws, ctx) ==
    IF k = 0
    THEN [execs |-> <<>>, ret |-> IF throws THEN "none" ELSE "handlerRet",
          handlerCalls |-> 1, handlerCb |-> cb,
          log |-> <<[op |-> "handler", layer |-> 0]>>,
          thrown |-> IF throws THEN "err" ELSE "none",
          handlerCtx |-> ctx]
    ELSE LET L == func[k]
             plan == FuncPlan(L, cfg)
             inner == IF plan.callsInner
                      THEN RunFunc(func, k - 1, PassCallback(plan, cb), cfg,
                                   throws, InnerContext(plan, ctx, k))
                      ELSE NotRun
             observed == inner.thrown # "none" /\ plan.completion # "none"
             out == IF plan.onThrow = "propagate" THEN inner.thrown ELSE "none"
             e0 == [layer |-> k, type |-> L.type, traced |-> plan.span > 0,
                    spanStarts |-> plan.span, smWrapped |-> plan.sm,
                    completion |-> plan.completion,
                    innerCalls |-> IF plan.callsInner THEN 1 ELSE 0,
                    innerCb |-> PassCallback(plan, cb),
                    gotCb |-> cb,
                    ret |-> IF out # "none" THEN "none"
                            ELSE IF plan.ret = "inner" THEN inner.ret
                            ELSE plan.ret,
                    innerRet |-> inner.ret,
                    regResult |-> RetOfResult(L.originalResult),
                    status |-> "none", endCalls |-> 0,
                    message |-> "none", innerThrew |-> inner.thrown,
                    threw |-> out, ctxIn |-> ctx,
                    spanParent |-> IF plan.span > 0 THEN Extract(ctx, k)
                                   ELSE ctx,
                    innerCtx |-> InnerContext(plan, ctx, k)]
             e == IF observed THEN HandlerThrew(e0, inner.thrown) ELSE e0
         IN  [execs |-> <<e>> \o inner.execs, ret |-> e.ret,
              handlerCalls |-> inner.handlerCalls,
              handlerCb |-> inner.handlerCb,
              log |-> LogOfPlan(plan, k) \o inner.log
                      \o (IF observed
                          THEN <<[op |-> "setStatus", layer |-> k],
                                 [op |-> "end", layer |-> k]>>
                          ELSE <<>>),
              thrown |-> out, handlerCtx |-> inner.handlerCtx]

\* the grpc library's Server.prototype.register: fails, leaving the entry in
\* place, when the name already has a handler
OriginalRegister(entry, type) ==
    IF entry.registered
    THEN [entry |-> entry, result |-> FALSE]
    ELSE [entry |-> [entry EXCEPT !.registered = TRUE, !.type = type],
          result |-> TRUE]

\* _patchServer: register called through d wrappers; every wrapper calls the
\* register below it and then wraps handlerSet.func once
PatchedRegister(entry, name, type, d) ==
    LET orig == OriginalRegister(entry, type)
        L == [name |-> name, type |-> type, originalResult |-> orig.result]
    IN  [entry |-> [orig.entry EXCEPT
                      !.func = @ \o [i \in 1..d |-> L],
                      !.regs = @ + 1,
                      !.origRegs = @ + 1],
         result |-> orig.result]

-----------------------------------------------------------------------------
(* Completion of a traced server call (serverUtils)                        *)

TerminalEvents == {"error", "finish", "status"}
Events == {"data"} \cup TerminalEvents

StatusOfEvent(ev) == IF ev = "error" THEN "error" ELSE "unset"

\* clientStreamAndUnaryHandler: the patched callback sets the status and
\* ends the span, then invokes the callback it wraps with the same arguments
PatchedCallback(e, err) ==
    [e EXCEPT !.status = IF err THEN "error" ELSE "unset",
              !.endCalls = @ + 1]

\* serverStreamAndBidiHandler: the first terminal event sets the status and
\* ends the span; later events leave the span alone
StreamListener(e, ev) ==
    IF ev \in TerminalEvents /\ e.endCalls = 0
    THEN [e EXCEPT !.status = StatusOfEvent(ev), !.endCalls = @ + 1]
    ELSE e

RECURSIVE CallbackLog(_, _)
\* the span operations of the patched callbacks, innermost wrapper first
CallbackLog(execs, i) ==
    IF i = 0 THEN <<>>
    ELSE (IF execs[i].completion = "callback"
          THEN <<[op |-> "setStatus", layer |-> execs[i].layer],
                 [op |-> "end", layer |-> execs[i].layer]>>
          ELSE <<>>) \o CallbackLog(execs, i - 1)

RECURSIVE EventLog(_, _, _)
EventLog(execs, ev, i) ==
    IF i > Len(execs) THEN <<>>
    ELSE (IF execs[i].completion = "events" /\ ev \in TerminalEvents
             /\ execs[i].endCalls = 0
          THEN <<[op |-> "setStatus", layer |-> execs[i].layer],
                 [op |-> "end", layer |-> execs[i].layer]>>
          ELSE <<>>) \o EventLog(execs, ev, i + 1)

-----------------------------------------------------------------------------
(* call.sendMetadata.  Every traced execution of func wraps the property   *)
(* once, the outermost wrapper of func first, so the wrapper installed by  *)
(* the innermost execution runs first.                                     *)

\* values the original sendMetadata may return
SendResults == {"undefined", "value"}

\* the layers whose wrapper is on call.sendMetadata, in the order they run
SendWrappers(execs) ==
    LET idx == {i \in DOMAIN execs : execs[i].smWrapped}
        f[n \in 0..Len(execs)] ==
            IF n = 0 THEN <<>>
            ELSE IF n \in idx THEN <<execs[n].layer>> \o f[n - 1]
                 ELSE f[n - 1]
    IN  f[Len(execs)]

NoSend == [origCalls |-> 0, origArg |-> "none", arg |-> "none",
           ret |-> "none", origRet |-> "none", log |-> <<>>,
           captures |-> <<>>]

\* call.sendMetadata(md): each wrapper captures the metadata on its span and
\* then calls the function below it with the same metadata; the arrow
\* function has no return statement, so a wrapper returns undefined; the
\* capture function is read from the instrumentation on every invocation
WrappedSendMetadata(wrappers, md, origRet, capture) ==
    [origCalls |-> 1, origArg |-> md, arg |-> md,
     captures |-> [i \in DOMAIN wrappers |->
                     capture.server.captureResponseMetadata],
     ret |-> IF wrappers = <<>> THEN origRet ELSE "undefined",
     origRet |-> origRet,
     log |-> [i \in DOMAIN wrappers |->
                [op |-> "captureResponseMetadata", layer |-> wrappers[i]]]
             \o <<[op |-> "originalSendMetadata", layer |-> 0]>>]

-----------------------------------------------------------------------------
(* Client side: the wrapper installed on the client constructor factories  *)

\* method tables handed to the factory: name -> originalName ("" when absent)
Tables == { "m1" :> "M1",
            ("m1" :> "") @@ ("m2" :> "m2"),
            ("m1" :> "m2") @@ ("m2" :> "") }

\* the prototype built by the original factory: one function per name, and
\* one per originalName when the library defines those
ProtoOf(table, ownOrig) ==
    DOMAIN table \cup
    (IF ownOrig THEN {table[n] : n \in DOMAIN table} \ {""} ELSE {})

\* _getMethodsToWrap: how often p is pushed onto methodList
GetMethodsToWrap(table, proto, cfg, p) ==
    Cardinality({n \in DOMAIN table :
                    /\ ~MethodIsIgnored(n, cfg.ignoreGrpcMethods)
                    /\ n = p})
    + Cardinality({n \in DOMAIN table :
                    /\ ~MethodIsIgnored(n, cfg.ignoreGrpcMethods)
                    /\ table[n] # ""
                    /\ table[n] \in proto
                    /\ n # table[n]
                    /\ table[n] = p})

\* the own enumerable properties the library puts on a method function:
\* the attributes of the method definition, here by key sets
AttrKeySets == {{"path"}, {"path", "requestStream", "originalName"}}

\* the properties of the original function of prototype property p
OriginalAttrs(p, keys) == [k \in keys |-> <<p, k>>]

\* Object.assign(target, source): every own enumerable property of source
\* is set on target
ObjectAssign(target, source) ==
    [k \in DOMAIN target \cup DOMAIN source |->
        IF k \in DOMAIN source THEN source[k] ELSE target[k]]

\* a faulty wrapper that copies the path only
GetPatchedClientMethodsPathOnly(original) ==
    ObjectAssign(<<>>, [k \in DOMAIN original \cap {"path"} |-> original[k]])

\* _getPatchedClientMethods: the own enumerable properties of the
\* clientMethodTrace function returned for a function with properties
\* original
GetPatchedClientMethods(original) == ObjectAssign(<<>>, original)

RECURSIVE MassWrap(_, _)
\* the properties of a method function after n wrappings
MassWrap(original, n) ==
    IF n = 0 THEN original
    ELSE GetPatchedClientMethods(MassWrap(original, n - 1))

NoClient == [made |-> FALSE, names |-> {}, table |-> <<>>, ignored |-> {},
             attrKeys |-> {}, attrs |-> [p \in Props |-> <<>>],
             proto |-> {}, wrappers |-> 0,
             listed |-> [p \in Props |-> 0],
             depth |-> [p \in Props |-> 0], origCalls |-> 0]

\* _patchClient: the factory called through d wrappers; every wrapper calls
\* the factory below it and then wraps the listed prototype methods
PatchedClientFactory(table, ownOrig, keys, cfg, d) ==
    LET proto == ProtoOf(table, ownOrig)
        listed == [p \in Props |-> GetMethodsToWrap(table, proto, cfg, p)]
    IN  [made |-> TRUE, names |-> DOMAIN table, table |-> table,
         attrKeys |-> keys,
         attrs |-> [p \in Props |->
                      IF p \in proto
                      THEN MassWrap(OriginalAttrs(p, keys), d * listed[p])
                      ELSE <<>>],
         ignored |-> {n \in DOMAIN table :
                         MethodIsIgnored(n, cfg.ignoreGrpcMethods)},
         proto |-> proto,
         wrappers |-> d, listed |-> listed,
         depth |-> [p \in Props |-> IF p \in proto THEN d * listed[p] ELSE 0],
         origCalls |-> 1]

\* targets of the client's channel
ChannelTargets == {"dns:host:8080", "unix:/tmp/socket"}

NoGroups == [name |-> "none", port |-> "none"]

\* URI_REGEX.exec(target): the groups name and port, or no match
UriRegexExec(target) ==
    IF target = "dns:host:8080" THEN [name |-> "host", port |-> "8080"]
    ELSE NoGroups

\* makeGrpcClientRemoteCall(...)(span): invokes the function below with the
\* arguments and the metadata and returns the call it returned
MakeGrpcClientRemoteCall(innerRet) == innerRet

\* a faulty clientMethodTrace that does not return the result of
\* context.with
ClientTraceStepNoReturn(k, target, ctx, innerRet) ==
    LET parsedUri == UriRegexExec(target)
        delegateRet == MakeGrpcClientRemoteCall(innerRet)
    IN  [layer |-> k, spanStarts |-> 1,
         peerName |-> parsedUri.name, peerPort |-> parsedUri.port,
         ctxIn |-> ctx, delegateCtx |-> SetSpan(ctx, k),
         delegateCalls |-> 1, delegateRet |-> delegateRet,
         ret |-> "undefined", threw |-> FALSE,
         log |-> <<[op |-> "startSpan", layer |-> k]>>
                 \o (IF parsedUri # NoGroups
                     THEN <<[op |-> "setPeerName", layer |-> k],
                            [op |-> "setPeerPort", layer |-> k]>>
                     ELSE <<>>)
                 \o <<[op |-> "captureRequestMetadata", layer |-> k],
                       [op |-> "delegate", layer |-> k]>>]

\* clientMethodTrace, one execution: startSpan, the peer attributes when the
\* target parses, captureRequestMetadata, then the delegate inside
\* context.with, whose result is returned
ClientTraceStep(k, target, ctx, innerRet) ==
    LET parsedUri == UriRegexExec(target)
        delegateRet == MakeGrpcClientRemoteCall(innerRet)
    IN  [layer |-> k, spanStarts |-> 1,
         peerName |-> parsedUri.name, peerPort |-> parsedUri.port,
         ctxIn |-> ctx, delegateCtx |-> SetSpan(ctx, k),
         delegateCalls |-> 1, delegateRet |-> delegateRet,
         ret |-> delegateRet, threw |-> FALSE,
         log |-> <<[op |-> "startSpan", layer |-> k]>>
                 \o (IF parsedUri # NoGroups
                     THEN <<[op |-> "setPeerName", layer |-> k],
                            [op |-> "setPeerPort", layer |-> k]>>
                     ELSE <<>>)
                 \o <<[op |-> "captureRequestMetadata", layer |-> k],
                       [op |-> "delegate", layer |-> k]>>]

RECURSIVE ClientTraceRun(_, _, _)
\* the executions of the k clientMethodTrace wrappers of a method, outermost
\* first, and what the outermost returns to the caller
ClientTraceRun(k, target, ctx) ==
    IF k = 0
    THEN [execs |-> <<>>, ret |-> "callRet",
          log |-> <<[op |-> "original", layer |-> 0]>>]
    ELSE LET inner == ClientTraceRun(k - 1, target, SetSpan(ctx, k))
             e == ClientTraceStep(k, target, ctx, inner.ret)
         IN  [execs |-> <<[x \in DOMAIN e \ {"log"} |-> e[x]]>>
                        \o inner.execs,
              ret |-> e.ret,
              log |-> e.log \o inner.log]

\* _getPatchedClientMethods: a method called through d clientMethodTrace
\* wrappers; each starts one span and hands the call to the delegate, which
\* invokes the function below and returns what it returned
ClientMethodTrace(d, target) ==
    LET r == ClientTraceRun(d, target, ActiveContext)
    IN  [spanStarts |-> d, origCalls |-> 1, ret |-> r.ret,
         status |-> "none", endCalls |-> 0, execs |-> r.execs, log |-> r.log]

\* makeGrpcClientRemoteCall: on completion or error the delegate of every
\* wrapper sets the status of its span and ends it
RemoteCallComplete(cc, err) ==
    [cc EXCEPT !.status = IF cc.spanStarts = 0 THEN "none"
                          ELSE IF err THEN "error" ELSE "unset",
               !.endCalls = cc.spanStarts,
               !.done = TRUE]

-----------------------------------------------------------------------------
(* RequireInTheMiddleSingleton, as its tests use it.  A module name is the *)
(* sequence of its path segments: 'cpx/lib/copy-sync.js' is                *)
(* <<"cpx", "lib", "copy-sync.js">>.                                       *)

\* the module names hooks are registered for
HookNames == {<<"fs">>, <<"fs", "promises">>, <<"cpx">>,
              <<"cpx", "lib", "copy-sync.js">>}

\* what the tests require: core modules have no base directory
Requirable ==
    {[name |-> <<"fs">>, core |-> TRUE],
     [name |-> <<"fs", "promises">>, core |-> TRUE],
     [name |-> <<"crypto">>, core |-> TRUE],
     [name |-> <<"cpx">>, core |-> FALSE],
     [name |-> <<"cpx", "lib", "copy-sync.js">>, core |-> FALSE]}

\* OTEL_REQUIRE_ONLY: unset, or the set of the names of its list
Unset == {"unset"}
RequireOnlyValues == {Unset, {"fs"}, {"fs", "cpx"}}

\* a is b or a path prefix of b
IsPrefix(a, b) ==
    /\ Len(a) <= Len(b)
    /\ \A i \in 1..Len(a) : a[i] = b[i]

\* a faulty search that matches path prefixes for core modules too
HookMatchesPrefixAlways(hookName, name, core) == IsPrefix(hookName, name)

\* the hooks a required module matches: the module itself when there is no
\* base directory, the package and the file inside it otherwise
HookMatches(hookName, name, core) ==
    IF core THEN hookName = name ELSE IsPrefix(hookName, name)

\* a faulty filter that lets every module through
AllowedByRequireOnlyAlways(only, name, core) == TRUE

\* OTEL_REQUIRE_ONLY names the modules that are hooked at all: a core module
\* by its name, any other by the name of its package
AllowedByRequireOnly(only, name, core) ==
    \/ only = Unset
    \/ /\ name[1] \in only
       /\ core => Len(name) = 1

\* makeOnRequiresStub(label): pushes its label on exports.__ritmOnRequires
\* and returns the exports
MakeOnRequiresStub(label, exports) == Append(exports, label)

\* a faulty hook that calls the matching onRequire functions last
\* registration first
OnHookReversed(hks, only, mod) ==
    LET idx == {i \in DOMAIN hks :
                   /\ AllowedByRequireOnly(only, mod.name, mod.core)
                   /\ HookMatches(hks[i].moduleName, mod.name, mod.core)}
        f[n \in 0..Len(hks)] ==
            IF n = 0 THEN <<>>
            ELSE IF n \in idx THEN <<n>> \o f[n - 1] ELSE f[n - 1]
        order == f[Len(hks)]
        g[j \in 0..Len(order)] ==
            IF j = 0 THEN <<>>
            ELSE MakeOnRequiresStub(hks[order[j]].label, g[j - 1])
    IN  [name |-> mod.name, core |-> mod.core, hooks |-> hks,
         calls |-> [j \in DOMAIN order |->
                      [hook |-> order[j], exportsIn |-> g[j - 1],
                       exportsOut |-> g[j], name |-> mod.name,
                       basedir |-> IF mod.core THEN "undefined" ELSE "basedir"]],
         exports |-> g[Len(order)]]

\* the one hook of the singleton: the matching onRequire functions are
\* called in registration order, each with the exports the one before
\* returned, the required name and the base directory
OnHook(hks, only, mod) ==
    LET idx == {i \in DOMAIN hks :
                   /\ AllowedByRequireOnly(only, mod.name, mod.core)
                   /\ HookMatches(hks[i].moduleName, mod.name, mod.core)}
        f[n \in 0..Len(hks)] ==
            IF n = 0 THEN <<>>
            ELSE IF n \in idx THEN f[n - 1] \o <<n>> ELSE f[n - 1]
        order == f[Len(hks)]
        g[j \in 0..Len(order)] ==
            IF j = 0 THEN <<>>
            ELSE MakeOnRequiresStub(hks[order[j]].label, g[j - 1])
    IN  [name |-> mod.name, core |-> mod.core, hooks |-> hks,
         calls |-> [j \in DOMAIN order |->
                      [hook |-> order[j], exportsIn |-> g[j - 1],
                       exportsOut |-> g[j], name |-> mod.name,
                       basedir |-> IF mod.core THEN "undefined" ELSE "basedir"]],
         exports |-> g[Len(order)]]

NoRequire ==
    [name |-> <<>>, core |-> TRUE, hooks |-> <<>>, calls |-> <<>>,
     exports |-> <<>>]

-----------------------------------------------------------------------------
(* Metadata capture.  config.metadataToSpanAttributes is followed as the   *)
(* key lists it gives: a list is absent when metadataToSpanAttributes, its *)
(* role or the list itself is.                                             *)

Roles == {"client", "server"}
Directions == {"requestMetadata", "responseMetadata"}

\* a configuration without metadataToSpanAttributes
NoMetadataConfig == [x \in {} |-> <<>>]

\* the values of metadataToSpanAttributes that are followed
MetaConfigs ==
    {NoMetadataConfig,
     <<"server", "requestMetadata">> :> <<"k1">>,
     <<"client", "requestMetadata">> :> <<"k2">>
         @@ <<"client", "responseMetadata">> :> <<"k1", "k2">>
         @@ <<"server", "requestMetadata">> :> <<"k2">>
         @@ <<"server", "responseMetadata">> :> <<>>}

\* metadataCapture(type, keys): a function that records the listed keys of
\* a metadata object as rpc.<type>.metadata.<key> attributes of a span
MetadataCapture(type, keys) == [type |-> type, keys |-> keys]

\* config.metadataToSpanAttributes?.<role>?.<direction> ?? []
ConfiguredKeys(cfg, role, direction) ==
    LET m == cfg.metadataToSpanAttributes IN
    IF <<role, direction>> \in DOMAIN m THEN m[<<role, direction>>] ELSE <<>>

\* _createMetadataCapture: the four functions of the configuration
CreateMetadataCapture(cfg) ==
    [r \in Roles |->
       [captureRequestMetadata |->
            MetadataCapture("request", ConfiguredKeys(cfg, r, "requestMetadata")),
        captureResponseMetadata |->
            MetadataCapture("response",
                            ConfiguredKeys(cfg, r, "responseMetadata"))]]

NoCapture == MetadataCapture("none", <<>>)

-----------------------------------------------------------------------------
(* Initial state and actions *)

IdleCall == [active |-> FALSE, name |-> "", type |-> "none", ignoredAt |-> FALSE,
             patchedAt |-> FALSE, execs |-> <<>>, ret |-> "none",
             handlerCalls |-> 0, handlerCb |-> NoCallback, cbCalls |-> 0,
             cbSupplied |-> <<>>, cbArgs |-> <<>>, nevents |-> 0,
             firstTerminal |-> "none", laterTerminals |-> 0,
             cancelled |-> FALSE, log |-> <<>>,
             sends |-> 0, lastSend |-> NoSend, thrown |-> "none",
             handlerThrew |-> FALSE, handlerCtx |-> ActiveContext,
             metaAt |-> NoMetadataConfig, requestCapture |-> NoCapture,
             sendMetaAt |-> NoMetadataConfig, touched |-> {}]

IdleClientCall == [active |-> FALSE, prop |-> "", ignoredAt |-> FALSE,
                   spanStarts |-> 0, origCalls |-> 0, ret |-> "none",
                   status |-> "none", endCalls |-> 0, cancelled |-> FALSE,
                   done |-> FALSE, target |-> "none", execs |-> <<>>,
                   log |-> <<>>, metaAt |-> NoMetadataConfig,
                   requestCapture |-> NoCapture,
                   responseCapture |-> NoCapture]

NoEvent == [kind |-> "none", module |-> "", defined |-> TRUE,
            before |-> [t \in Targets |-> 0]]

\* the instrumentation constructed with one of the given values of
\* metadataToSpanAttributes
InitWith(metas) ==
    /\ side \in {"server", "client"}
    /\ config \in [ignoreGrpcMethods : IgnoreListsOf(side),
                    metadataToSpanAttributes : metas]
    /\ metadataCapture = CreateMetadataCapture(config)
    /\ layers = [t \in Targets |-> 0]
    /\ thrown = FALSE
    /\ handlers = [n \in ServerNames |-> NoHandler]
    /\ calls = [c \in CallIds |-> IdleCall]
    /\ client = NoClient
    /\ ccalls = [c \in ClientCallIds |-> IdleClientCall]
    /\ lastEvent = NoEvent
    /\ hooks = <<>>
    /\ requireOnly = Unset
    /\ lastRequire = NoRequire

Init == InitWith({NoMetadataConfig})

\* the module hook host reports the grpc module loaded
ApplyMain ==
    /\ \A t \in Targets : PatchMain(layers)[t] <= MaxLayers
    /\ layers' = PatchMain(layers)
    /\ lastEvent' = [kind |-> "apply", module |-> "grpc", defined |-> TRUE,
                     before |-> layers]
    /\ UNCHANGED <<hookVars, metadataCapture, config, thrown, side, handlers, calls, client, ccalls>>

\* the module hook host reports the grpc module removed
RemoveMain(defined) ==
    /\ layers' = UnpatchMain(defined, layers).layers
    /\ thrown' = (thrown \/ UnpatchMain(defined, layers).thrown)
    /\ lastEvent' = [kind |-> "remove", module |-> "grpc",
                     defined |-> defined, before |-> layers]
    /\ UNCHANGED <<hookVars, metadataCapture, config, side, handlers, calls, client, ccalls>>

\* the module hook host reports the internal client file loaded
ApplyInternal ==
    /\ \A t \in Targets : OnPatch(layers)[t] <= MaxLayers
    /\ layers' = OnPatch(layers)
    /\ lastEvent' = [kind |-> "apply", module |-> "client", defined |-> TRUE,
                     before |-> layers]
    /\ UNCHANGED <<hookVars, metadataCapture, config, thrown, side, handlers, calls, client, ccalls>>

\* the module hook host reports the internal client file removed
RemoveInternal(defined) ==
    /\ layers' = OnUnPatch(defined, layers).layers
    /\ thrown' = (thrown \/ OnUnPatch(defined, layers).thrown)
    /\ lastEvent' = [kind |-> "remove", module |-> "client",
                     defined |-> defined, before |-> layers]
    /\ UNCHANGED <<hookVars, metadataCapture, config, side, handlers, calls, client, ccalls>>

\* a faulty setConfig that keeps the capture functions it has
SetConfigKeepsCapture(ignore, meta) ==
    /\ ignore \in IgnoreListsOf(side)
    /\ config # [ignoreGrpcMethods |-> ignore,
                 metadataToSpanAttributes |-> meta]
    /\ config' = [ignoreGrpcMethods |-> ignore,
                  metadataToSpanAttributes |-> meta]
    /\ UNCHANGED <<hookVars, metadataCapture, layers, thrown, side, handlers,
                   calls, client, ccalls, lastEvent>>

\* setConfig(config): the configuration is replaced wholesale and the
\* capture functions are made anew from it
SetConfig(ignore, meta) ==
    /\ ignore \in IgnoreListsOf(side)
    /\ config # [ignoreGrpcMethods |-> ignore,
                 metadataToSpanAttributes |-> meta]
    /\ config' = [ignoreGrpcMethods |-> ignore,
                  metadataToSpanAttributes |-> meta]
    /\ metadataCapture' = CreateMetadataCapture(config')
    /\ UNCHANGED <<hookVars, layers, thrown, side, handlers, calls, client, ccalls,
                   lastEvent>>

\* server.register(name, handler, serialize, deserialize, type); a second
\* registration of a name repeats the type of the first
Register(name, type) ==
    /\ side = "server"
    /\ handlers[name].regs < MaxRegs
    /\ handlers[name].registered => type = handlers[name].type
    /\ handlers' = [handlers EXCEPT ![name] =
           PatchedRegister(handlers[name], name, type, layers["register"]).entry]
    /\ UNCHANGED <<hookVars, metadataCapture, config, layers, thrown, side, calls, client, ccalls,
                   lastEvent>>

\* the callback the grpc library hands to handlers[name].func
GrpcCallback(type) == IF type \in StreamShapes THEN NoCallback ELSE 0

RECURSIVE SumSpans(_, _)
SumSpans(execs, i) ==
    IF i = 0 THEN 0 ELSE execs[i].spanStarts + SumSpans(execs, i - 1)

\* the spans started for a server call by all the wrappers it ran through
SpansStarted(call) == SumSpans(call.execs, Len(call.execs))

RECURSIVE SumCalls(_, _)
\* the spans started for the calls ids
SumCalls(cs, ids) ==
    IF ids = {} THEN 0
    ELSE LET c == CHOOSE x \in ids : TRUE
         IN  SpansStarted(cs[c]) + SumCalls(cs, ids \ {c})

\* the spans the tracer has created for all the server calls so far; a new
\* span is numbered one above
AllocatedSpans == SumCalls(calls, DOMAIN calls)

\* the executions of one call with the spans startSpan gave them, the
\* outermost wrapper starting its span first
AssignSpans(execs, base) ==
    [i \in DOMAIN execs |->
       [x \in DOMAIN execs[i] \cup {"span"} |->
          IF x # "span" THEN execs[i][x]
          ELSE IF execs[i].traced
               THEN base + Cardinality({j \in 1..i : execs[j].traced})
               ELSE 0]]

\* a faulty func that keeps its span in a field of the instrumentation, so
\* that its closures find the span of the call that started last
SpanOfInstrumentationField(own, latest) == latest

\* the span that captureRequestMetadata, the sendMetadata wrapper and the
\* completion handlers of an execution of func work on: the `span` constant
\* of that execution, which its closures capture
SpanOfClosure(own, latest) == own

\* the grpc library dispatches an incoming call to handlers[name].func
InvokeHandler(c, name, throws) ==
    /\ ~calls[c].active
    /\ handlers[name].registered
    /\ LET h == handlers[name]
           r == RunFunc(h.func, Len(h.func), GrpcCallback(h.type), config,
                        throws, ActiveContext)
           ex == AssignSpans(r.execs, AllocatedSpans)
       IN  calls' = [calls EXCEPT ![c] =
               [IdleCall EXCEPT !.active = TRUE, !.name = name,
                                !.type = h.type,
                                !.ignoredAt = MethodIsIgnored(name,
                                                 config.ignoreGrpcMethods),
                                !.patchedAt = IsWrapped(layers["register"]),
                                !.execs = ex, !.ret = r.ret,
                                !.touched =
                                    {SpanOfClosure(ex[i].span, ex[i].span) :
                                       i \in {j \in DOMAIN ex : ex[j].traced}}
                                    \cup
                                    {SpanOfClosure(ex[i].span,
                                         AllocatedSpans + SumSpans(ex, Len(ex))) :
                                       i \in {j \in DOMAIN ex :
                                                ex[j].endCalls > 0}},
                                !.handlerCalls = r.handlerCalls,
                                !.handlerCb = r.handlerCb, !.log = r.log,
                                !.thrown = r.thrown,
                                !.handlerCtx = r.handlerCtx,
                                !.metaAt = config.metadataToSpanAttributes,
                                !.requestCapture =
                                    IF \E i \in DOMAIN r.execs : r.execs[i].traced
                                    THEN metadataCapture.server
                                             .captureRequestMetadata
                                    ELSE NoCapture,
                                !.handlerThrew = throws /\ r.handlerCalls > 0]]
    /\ UNCHANGED <<hookVars, metadataCapture, config, layers, thrown, side, handlers, client, ccalls,
                   lastEvent>>

\* every span of the call has been ended
Completed(call) ==
    /\ \E i \in DOMAIN call.execs : call.execs[i].traced
    /\ \A i \in DOMAIN call.execs :
           call.execs[i].traced => call.execs[i].endCalls > 0

\* the original handler, having returned, invokes the callback it was
\* given (once); a cancelled call completes with an error
HandlerCallback(c, err) ==
    /\ calls[c].active
    /\ calls[c].handlerCalls > 0
    /\ ~calls[c].handlerThrew
    /\ calls[c].handlerCb # NoCallback
    /\ calls[c].cbCalls = 0
    /\ calls[c].cancelled => err
    /\ LET args == IF err THEN "error" ELSE "null"
       IN  calls' = [calls EXCEPT ![c] =
               [@ EXCEPT
                  !.execs = [i \in DOMAIN @ |->
                               IF @[i].completion = "callback"
                               THEN PatchedCallback(@[i], err) ELSE @[i]],
                  !.cbCalls = @ + 1,
                  !.touched = @ \cup
                      {SpanOfClosure(calls[c].execs[i].span, AllocatedSpans) :
                         i \in {j \in DOMAIN calls[c].execs :
                                  calls[c].execs[j].completion = "callback"}},
                  !.cbSupplied = Append(@, args),
                  !.cbArgs = Append(@, args),
                  !.log = @ \o CallbackLog(calls[c].execs, Len(calls[c].execs))
                            \o <<[op |-> "callback", layer |-> 0]>>]]
    /\ UNCHANGED <<hookVars, metadataCapture, config, layers, thrown, side, handlers, client, ccalls,
                   lastEvent>>

\* a streaming call emits an event; a cancelled call emits its error
CallEvent(c, ev) ==
    /\ calls[c].active
    /\ calls[c].handlerCalls > 0
    /\ ~calls[c].handlerThrew
    /\ calls[c].type \in StreamShapes
    /\ calls[c].nevents < MaxEvents
    /\ calls[c].cancelled => ev = "error"
    /\ calls' = [calls EXCEPT ![c] =
           [@ EXCEPT
              !.execs = [i \in DOMAIN @ |->
                           IF @[i].completion = "events"
                           THEN StreamListener(@[i], ev) ELSE @[i]],
              !.nevents = @ + 1,
              !.touched = @ \cup
                  {SpanOfClosure(calls[c].execs[i].span, AllocatedSpans) :
                     i \in {j \in DOMAIN calls[c].execs :
                              /\ calls[c].execs[j].completion = "events"
                              /\ ev \in TerminalEvents
                              /\ calls[c].execs[j].endCalls = 0}},
              !.firstTerminal = IF @ = "none" /\ ev \in TerminalEvents
                                THEN ev ELSE @,
              !.laterTerminals = IF calls[c].firstTerminal # "none"
                                    /\ ev \in TerminalEvents
                                 THEN @ + 1 ELSE @,
              !.log = @ \o EventLog(calls[c].execs, ev, 1)]]
    /\ UNCHANGED <<hookVars, metadataCapture, config, layers, thrown, side, handlers, client, ccalls,
                   lastEvent>>

\* the handler invokes call.sendMetadata(md)
SendMetadata(c, origRet) ==
    /\ calls[c].active
    /\ calls[c].handlerCalls > 0
    /\ ~calls[c].handlerThrew
    /\ calls[c].sends < MaxSends
    /\ calls' = [calls EXCEPT ![c] =
           [@ EXCEPT
              !.sends = @ + 1,
              !.touched = @ \cup
                  {SpanOfClosure(calls[c].execs[i].span, AllocatedSpans) :
                     i \in {j \in DOMAIN calls[c].execs :
                              calls[c].execs[j].smWrapped}},
              !.sendMetaAt = config.metadataToSpanAttributes,
              !.lastSend = WrappedSendMetadata(SendWrappers(calls[c].execs),
                                               "md", origRet,
                                               metadataCapture)]]
    /\ UNCHANGED <<hookVars, metadataCapture, config, layers, thrown, side, handlers, client, ccalls,
                   lastEvent>>

\* the peer aborts a traced call that is still being handled
Cancel(c) ==
    /\ calls[c].active
    /\ calls[c].type \in Shapes
    /\ ~calls[c].handlerThrew
    /\ ~calls[c].cancelled
    /\ calls[c].cbCalls = 0
    /\ calls[c].firstTerminal = "none"
    /\ calls[c].nevents < MaxEvents
    /\ calls' = [calls EXCEPT ![c].cancelled = TRUE]
    /\ UNCHANGED <<hookVars, metadataCapture, config, layers, thrown, side, handlers, client, ccalls,
                   lastEvent>>

\* grpc.makeGenericClientConstructor(methods, ...) or the internal
\* makeClientConstructor(methods, ...)
MakeClient(factory, table, ownOrig, keys) ==
    /\ side = "client"
    /\ ~client.made
    /\ client' = PatchedClientFactory(table, ownOrig, keys, config,
                                      layers[factory])
    /\ UNCHANGED <<hookVars, metadataCapture, config, layers, thrown, side, handlers, calls, ccalls,
                   lastEvent>>

\* client.<p>(...) on an instance of the constructed client
InvokeClientMethod(c, p, target) ==
    /\ client.made
    /\ p \in client.proto
    /\ ~ccalls[c].active
    /\ LET r == ClientMethodTrace(client.depth[p], target)
       IN  ccalls' = [ccalls EXCEPT ![c] =
               [IdleClientCall EXCEPT !.active = TRUE, !.prop = p,
                                      !.ignoredAt = MethodIsIgnored(p,
                                                 config.ignoreGrpcMethods),
                                      !.spanStarts = r.spanStarts,
                                      !.origCalls = r.origCalls,
                                      !.ret = r.ret, !.target = target,
                                      !.metaAt = config.metadataToSpanAttributes,
                                      !.requestCapture =
                                          IF r.spanStarts > 0
                                          THEN metadataCapture.client
                                                   .captureRequestMetadata
                                          ELSE NoCapture,
                                      !.responseCapture =
                                          IF r.spanStarts > 0
                                          THEN metadataCapture.client
                                                   .captureResponseMetadata
                                          ELSE NoCapture,
                                      !.execs = r.execs, !.log = r.log]]
    /\ UNCHANGED <<hookVars, metadataCapture, config, layers, thrown, side, handlers, calls, client,
                   lastEvent>>

\* the caller aborts a client call that has not completed
ClientCancel(c) ==
    /\ ccalls[c].active
    /\ ~ccalls[c].done
    /\ ~ccalls[c].cancelled
    /\ ccalls' = [ccalls EXCEPT ![c].cancelled = TRUE]
    /\ UNCHANGED <<hookVars, metadataCapture, config, layers, thrown, side, handlers, calls, client,
                   lastEvent>>

\* the remote call completes; a cancelled call completes with an error
ClientComplete(c, err) ==
    /\ ccalls[c].active
    /\ ~ccalls[c].done
    /\ ccalls[c].cancelled => err
    /\ ccalls' = [ccalls EXCEPT ![c] = RemoteCallComplete(@, err)]
    /\ UNCHANGED <<hookVars, metadataCapture, config, layers, thrown, side, handlers, calls, client,
                   lastEvent>>

Next ==
    \/ ApplyMain
    \/ \E d \in BOOLEAN : RemoveMain(d)
    \/ ApplyInternal
    \/ \E d \in BOOLEAN : RemoveInternal(d)
    \/ \E ig \in IgnoreLists : SetConfig(ig, config.metadataToSpanAttributes)
    \/ \E n \in ServerNames, t \in Types : Register(n, t)
    \/ \E c \in CallIds, n \in ServerNames : InvokeHandler(c, n, FALSE)
    \/ \E c \in CallIds, err \in BOOLEAN : HandlerCallback(c, err)
    \/ \E c \in CallIds, ev \in Events : CallEvent(c, ev)
    \/ \E c \in CallIds : Cancel(c)
    \/ \E f \in Factories, tb \in Tables, o \in BOOLEAN :
           MakeClient(f, tb, o, {"path"})
    \/ \E c \in ClientCallIds, p \in Props :
           InvokeClientMethod(c, p, "dns:host:8080")
    \/ \E c \in ClientCallIds : ClientCancel(c)
    \/ \E c \in ClientCallIds, err \in BOOLEAN : ClientComplete(c, err)

Spec == Init /\ [][Next]_vars

\* the terminal event the library raises for a cancelled call: the error
\* callback of the callback shapes, the error event of the streaming shapes
CancellationDelivered(c) ==
    /\ calls[c].cancelled
    /\ (HandlerCallback(c, TRUE) \/ CallEvent(c, "error"))

\* the error completion of a cancelled client call
ClientCancellationDelivered(c) ==
    /\ ccalls[c].cancelled
    /\ ClientComplete(c, TRUE)

\* requireInTheMiddleSingleton.register(moduleName, onRequire), with the
\* stub labelled by the module name
RegisterHook(moduleName) ==
    /\ Len(hooks) < MaxHooks
    /\ hooks' = Append(hooks, [moduleName |-> moduleName, label |-> moduleName])
    /\ UNCHANGED <<config, layers, thrown, side, handlers, calls, client,
                   ccalls, lastEvent, requireOnly, lastRequire,
                   metadataCapture>>

\* require(name)
Require(mod) ==
    /\ lastRequire' = OnHook(hooks, requireOnly, mod)
    /\ UNCHANGED <<config, layers, thrown, side, handlers, calls, client,
                   ccalls, lastEvent, hooks, requireOnly, metadataCapture>>

\* the module hook singleton on its own, created with or without
\* OTEL_REQUIRE_ONLY
HookInit ==
    /\ side = "server"
    /\ config = [ignoreGrpcMethods |-> {},
                 metadataToSpanAttributes |-> NoMetadataConfig]
    /\ metadataCapture = CreateMetadataCapture(config)
    /\ layers = [t \in Targets |-> 0]
    /\ thrown = FALSE
    /\ handlers = [n \in ServerNames |-> NoHandler]
    /\ calls = [c \in CallIds |-> IdleCall]
    /\ client = NoClient
    /\ ccalls = [c \in ClientCallIds |-> IdleClientCall]
    /\ lastEvent = NoEvent
    /\ hooks = <<>>
    /\ requireOnly \in RequireOnlyValues
    /\ lastRequire = NoRequire

HookNext ==
    \/ \E m \in HookNames : RegisterHook(m)
    \/ \E mod \in Requirable : Require(mod)

HookSpec == HookInit /\ [][HookNext]_vars

\* the server side in detail: registration, calls, their completion and
\* the use of call.sendMetadata
CallInit == Init /\ side = "server"

CallNext ==
    \/ ApplyMain
    \/ \E ig \in IgnoreLists : SetConfig(ig, config.metadataToSpanAttributes)
    \/ \E n \in ServerNames, t \in Types : Register(n, t)
    \/ \E c \in CallIds, n \in ServerNames, th \in BOOLEAN :
           InvokeHandler(c, n, th)
    \/ \E c \in CallIds, err \in BOOLEAN : HandlerCallback(c, err)
    \/ \E c \in CallIds, ev \in Events : CallEvent(c, ev)
    \/ \E c \in CallIds, r \in SendResults : SendMetadata(c, r)

CallSpec == CallInit /\ [][CallNext]_vars

\* the client side in detail: clients of channels with any target
ClientInit == Init /\ side = "client"

ClientNext ==
    \/ ApplyMain
    \/ ApplyInternal
    \/ \E ig \in IgnoreLists : SetConfig(ig, config.metadataToSpanAttributes)
    \/ \E f \in Factories, tb \in Tables, o \in BOOLEAN, ks \in AttrKeySets :
           MakeClient(f, tb, o, ks)
    \/ \E c \in ClientCallIds, p \in Props, tg \in ChannelTargets :
           InvokeClientMethod(c, p, tg)
    \/ \E c \in ClientCallIds, err \in BOOLEAN : ClientComplete(c, err)

ClientSpec == ClientInit /\ [][ClientNext]_vars

\* reconfiguration of the metadata capture between and during calls
MetaInit == InitWith(MetaConfigs)

MetaNext ==
    \/ ApplyMain
    \/ \E ig \in {{}}, m \in MetaConfigs : SetConfig(ig, m)
    \/ \E n \in ServerNames, t \in Shapes : Register(n, t)
    \/ \E c \in CallIds, n \in ServerNames : InvokeHandler(c, n, FALSE)
    \/ \E c \in CallIds, r \in SendResults : SendMetadata(c, r)
    \/ \E f \in Factories, tb \in Tables, o \in BOOLEAN, ks \in AttrKeySets :
           MakeClient(f, tb, o, ks)
    \/ \E c \in ClientCallIds, p \in Props :
           InvokeClientMethod(c, p, "dns:host:8080")

MetaSpec == MetaInit /\ [][MetaNext]_vars

\* two server calls of a handler registered once, in flight at the same
\* time
ConcCallIds == {1, 2}

ConcInit ==
    /\ side = "server"
    /\ config = [ignoreGrpcMethods |-> {},
                 metadataToSpanAttributes |-> NoMetadataConfig]
    /\ metadataCapture = CreateMetadataCapture(config)
    /\ layers = [t \in Targets |-> 0]
    /\ thrown = FALSE
    /\ handlers = [n \in ServerNames |-> NoHandler]
    /\ calls = [c \in ConcCallIds |-> IdleCall]
    /\ client = NoClient
    /\ ccalls = [c \in ClientCallIds |-> IdleClientCall]
    /\ lastEvent = NoEvent
    /\ hooks = <<>>
    /\ requireOnly = Unset
    /\ lastRequire = NoRequire

ConcNext ==
    \/ ApplyMain
    \/ \E n \in ServerNames, t \in {"unary", "server_stream"} :
           ~handlers[n].registered /\ Register(n, t)
    \/ \E c \in ConcCallIds, n \in ServerNames, th \in BOOLEAN :
           InvokeHandler(c, n, th)
    \/ \E c \in ConcCallIds, err \in BOOLEAN : HandlerCallback(c, err)
    \/ \E c \in ConcCallIds, ev \in Events : CallEvent(c, ev)
    \/ \E c \in ConcCallIds, r \in SendResults : SendMetadata(c, r)

ConcSpec == ConcInit /\ [][ConcNext]_vars

\* the library does deliver the terminal event of a cancelled call
LiveSpec ==
    /\ Spec
    /\ \A c \in CallIds : WF_vars(CancellationDelivered(c))
    /\ \A c \in ClientCallIds : WF_vars(ClientCancellationDelivered(c))

-----------------------------------------------------------------------------
(* Properties *)

\* the targets the patch callback of a module wraps
TargetsOf(module) ==
    IF module = "grpc" THEN {"register", "makeGenericClientConstructor"}
    ELSE IF module = "client" THEN {"makeClientConstructor"}
    ELSE {}

\* C1: after any sequence of load events every target carries exactly one
\* wrapper; one call of the wrapped register calls the original register
\* once and adds one wrapper to the handler, one call of a wrapped factory
\* calls the original factory once and wraps each listed method once, so an
\* RPC on a handler registered once, or on a method listed once, calls the
\* original once and creates one span, never two.
C1_OneLayerAfterLoads ==
    /\ \A t \in Targets : layers[t] <= 1
    /\ lastEvent.kind = "apply" =>
           \A t \in TargetsOf(lastEvent.module) : layers[t] = 1
    /\ \A n \in ServerNames :
           /\ handlers[n].origRegs = handlers[n].regs
           /\ Len(handlers[n].func) <= handlers[n].regs
    /\ client.made =>
           /\ client.origCalls = 1
           /\ \A p \in Props : client.depth[p] <= client.listed[p]
    /\ \A c \in CallIds : calls[c].active =>
           /\ SpansStarted(calls[c]) <= handlers[calls[c].name].regs
           /\ calls[c].handlerCalls <= 1
           /\ (/\ handlers[calls[c].name].regs = 1
               /\ Len(calls[c].execs) = 1
               /\ ~calls[c].ignoredAt) => SpansStarted(calls[c]) = 1
    /\ \A c \in ClientCallIds : ccalls[c].active =>
           /\ ccalls[c].origCalls = 1
           /\ ccalls[c].spanStarts <= client.listed[ccalls[c].prop]

\* a second load event for the grpc module has been handled, and a call on a
\* handler registered through the wrapped register has created its one span
C1_Witness ==
    /\ lastEvent.kind = "apply"
    /\ lastEvent.module = "grpc"
    /\ lastEvent.before["register"] = 1
    /\ layers["register"] = 1
    /\ \E c \in CallIds :
           /\ calls[c].active
           /\ Len(calls[c].execs) = 1
           /\ SpansStarted(calls[c]) = 1
           /\ calls[c].handlerCalls = 1

\* C2: after a remove event that follows an apply event for the same module
\* exports, none of the targets that apply event wrapped is still wrapped.
C2_NoTargetLeftWrapped ==
    (/\ lastEvent.kind = "remove"
     /\ lastEvent.defined
     /\ \E t \in TargetsOf(lastEvent.module) : lastEvent.before[t] > 0)
    => \A t \in TargetsOf(lastEvent.module) : layers[t] = 0

\* C3: once the patch has been removed, a call of a handler that was
\* registered while the patch was applied, of any of the four shapes, runs
\* the original handler with the arguments the library passed, returns what
\* it returned and creates no span.
C3_RemovedPatchRestoresHandler ==
    \A c \in CallIds :
        (/\ calls[c].active
         /\ calls[c].type \in Shapes
         /\ ~calls[c].patchedAt
         /\ Len(handlers[calls[c].name].func) > 0)
        => /\ SpansStarted(calls[c]) = 0
           /\ calls[c].handlerCalls = 1
           /\ calls[c].handlerCb = GrpcCallback(calls[c].type)
           /\ calls[c].ret = "handlerRet"

\* C4: a remove event for targets that are not wrapped (never applied,
\* already removed, or module exports undefined) raises no error and leaves
\* the targets as they were.
C4_RemoveUnwrappedIsNoop ==
    /\ ~thrown
    /\ lastEvent.kind = "remove" =>
           /\ \A t \in Targets : lastEvent.before[t] = 0 => layers[t] = 0
           /\ ~lastEvent.defined => layers = lastEvent.before

\* a remove event for the grpc module arrived when nothing was wrapped
C4_Witness ==
    /\ lastEvent.kind = "remove"
    /\ lastEvent.module = "grpc"
    /\ lastEvent.defined
    /\ \A t \in Targets : lastEvent.before[t] = 0 /\ layers[t] = 0
    /\ ~thrown

\* C5: an invocation of an ignored method creates no span, invokes the
\* original exactly once with the arguments it was called with and returns
\* what the original returned; on the server for each of the four shapes,
\* on the client for every method whose name is on the ignore list.
C5_IgnoredMethodCallsStraightThrough ==
    /\ \A c \in CallIds :
           (calls[c].active /\ calls[c].ignoredAt /\ calls[c].type \in Shapes)
           => /\ SpansStarted(calls[c]) = 0
              /\ calls[c].handlerCalls = 1
              /\ calls[c].handlerCb = GrpcCallback(calls[c].type)
              /\ calls[c].ret = "handlerRet"
    /\ \A c \in ClientCallIds :
           (ccalls[c].active /\ ccalls[c].ignoredAt)
           => /\ ccalls[c].spanStarts = 0
              /\ ccalls[c].origCalls = 1
              /\ ccalls[c].ret = "callRet"

\* the positions of an entry in the log of a call
Positions(log, e) == {i \in DOMAIN log : log[i] = e}

\* C6: when the handler of a traced unary or client_stream call invokes
\* its callback with an error, every wrapper the call ran through has
\* created exactly one span, has set its status to error and has ended it
\* exactly once, both before the original callback ran, and the original
\* callback has received the arguments the handler supplied.
C6_UnaryErrorEndsSpanBeforeCallback ==
    \A c \in CallIds :
        (/\ calls[c].active
         /\ calls[c].type \in UnaryShapes
         /\ calls[c].cbSupplied = <<"error">>)
        => /\ calls[c].cbArgs = calls[c].cbSupplied
           /\ Cardinality(Positions(calls[c].log,
                                    [op |-> "callback", layer |-> 0])) = 1
           /\ \A i \in DOMAIN calls[c].execs :
                 LET e == calls[c].execs[i]
                     cb == CHOOSE j \in Positions(calls[c].log,
                               [op |-> "callback", layer |-> 0]) : TRUE
                 IN  e.traced =>
                       /\ e.spanStarts = 1
                       /\ e.status = "error"
                       /\ e.endCalls = 1
                       /\ Cardinality(Positions(calls[c].log,
                              [op |-> "startSpan", layer |-> e.layer])) = 1
                       /\ Cardinality(Positions(calls[c].log,
                              [op |-> "end", layer |-> e.layer])) = 1
                       /\ \E j \in Positions(calls[c].log,
                              [op |-> "setStatus", layer |-> e.layer]) : j < cb
                       /\ \E j \in Positions(calls[c].log,
                              [op |-> "end", layer |-> e.layer]) : j < cb

\* the handler of a traced unary call has called back with an error and the
\* span has been ended with error status
C6_Witness ==
    \E c \in CallIds :
        /\ calls[c].active
        /\ calls[c].type = "unary"
        /\ calls[c].cbSupplied = <<"error">>
        /\ ~calls[c].cancelled
        /\ Len(calls[c].execs) = 1
        /\ calls[c].execs[1].traced
        /\ calls[c].execs[1].status = "error"
        /\ calls[c].execs[1].endCalls = 1

\* C7: for a traced server_stream or bidi call, after any sequence of data,
\* error, finish and status events, every wrapper the call ran through has
\* created one span and no more; the span is open while no terminal event
\* has arrived, and from the first terminal event on it has been ended
\* exactly once and carries the status of that first event, whatever
\* terminal events follow.
C7_StreamSpanEndsOnceAtFirstTerminal ==
    \A c \in CallIds :
        (calls[c].active /\ calls[c].type \in StreamShapes)
        => \A i \in DOMAIN calls[c].execs :
             LET e == calls[c].execs[i]
                 first == calls[c].firstTerminal
             IN  e.traced =>
                   /\ e.spanStarts = 1
                   /\ Cardinality(Positions(calls[c].log,
                          [op |-> "startSpan", layer |-> e.layer])) = 1
                   /\ first = "none" =>
                          /\ e.endCalls = 0
                          /\ e.status = "none"
                   /\ first # "none" =>
                          /\ e.endCalls = 1
                          /\ e.status = StatusOfEvent(first)
                          /\ Cardinality(Positions(calls[c].log,
                                 [op |-> "end", layer |-> e.layer])) = 1

\* a traced bidi call has emitted finish and then another terminal event:
\* the span was ended once, at finish, and the later event has left it alone
C7_Witness ==
    \E c \in CallIds :
        /\ calls[c].active
        /\ calls[c].type = "bidi"
        /\ calls[c].firstTerminal = "finish"
        /\ calls[c].laterTerminals >= 1
        /\ Len(calls[c].execs) = 1
        /\ calls[c].execs[1].traced
        /\ calls[c].execs[1].endCalls = 1
        /\ calls[c].execs[1].status = "unset"

C9_IgnoreListReadOnEveryCall ==
    /\ \A c \in CallIds : calls[c].active =>
           \A i \in DOMAIN calls[c].execs :
               calls[c].execs[i].traced <=> ~calls[c].ignoredAt
    /\ \A c \in ClientCallIds :
           (/\ ccalls[c].active
            /\ client.wrappers > 0
            /\ ccalls[c].prop \in client.names)
           => (ccalls[c].spanStarts > 0 <=> ~ccalls[c].ignoredAt)

\* C10: a handler registered with a type that is none of the four shapes
\* is invoked without any tracing action, on the ignored and on the
\* non-ignored path: the wrapper starts no span, does not wrap
\* sendMetadata and returns what the original register returned.
C10_UnknownShapeTakesNoTracingAction ==
    \A c \in CallIds :
        (calls[c].active /\ calls[c].type \notin Shapes)
        => \A i \in DOMAIN calls[c].execs :
             /\ calls[c].execs[i].spanStarts = 0
             /\ ~calls[c].execs[i].smWrapped
             /\ calls[c].execs[i].ret = calls[c].execs[i].regResult

\* C11: every invocation of the wrapped sendMetadata of a traced call
\* captures the response metadata on every span of the call before the
\* original sendMetadata runs, invokes the original exactly once with the
\* metadata it was given, and returns what the original returned.
C11_SendMetadataWrapKeepsResult ==
    \A c \in CallIds :
        (/\ calls[c].active
         /\ calls[c].sends > 0
         /\ \E i \in DOMAIN calls[c].execs : calls[c].execs[i].traced)
        => LET snd == calls[c].lastSend
               orig == Positions(snd.log,
                                 [op |-> "originalSendMetadata", layer |-> 0])
           IN  /\ snd.origCalls = 1
               /\ Cardinality(orig) = 1
               /\ snd.origArg = snd.arg
               /\ \A i \in DOMAIN calls[c].execs :
                     calls[c].execs[i].traced =>
                       \E j \in Positions(snd.log,
                                [op |-> "captureResponseMetadata",
                                 layer |-> calls[c].execs[i].layer]) :
                           \A k \in orig : j < k
               /\ snd.ret = snd.origRet

C13_EachMethodWrappedOnce ==
    (client.made /\ client.wrappers = 1)
    => /\ \A n \in client.names \ client.ignored :
             /\ client.depth[n] >= 1
             /\ (/\ client.table[n] # ""
                 /\ client.table[n] # n
                 /\ client.table[n] \in client.proto)
                => client.depth[client.table[n]] >= 1
       /\ \A p \in Props :
             /\ client.listed[p] <= 1
             /\ client.depth[p] <= 1
       /\ \A c \in ClientCallIds :
             (ccalls[c].active /\ client.depth[ccalls[c].prop] > 0)
             => ccalls[c].spanStarts = 1

\* C14: every wrapped client method has every own enumerable property of
\* the original function, with the value it has on the original.
C14_WrappedMethodKeepsProperties ==
    client.made =>
        \A p \in client.proto :
            client.depth[p] > 0 =>
                \A k \in client.attrKeys :
                    /\ k \in DOMAIN client.attrs[p]
                    /\ client.attrs[p][k] =
                           OriginalAttrs(p, client.attrKeys)[k]

\* a client whose methods carry path, requestStream and originalName has
\* been made through a wrapped factory, and its wrapped method m1 has them
C14_Witness ==
    /\ client.made
    /\ client.wrappers = 1
    /\ client.depth["m1"] = 1
    /\ client.attrKeys = {"path", "requestStream", "originalName"}
    /\ client.attrs["m1"]["requestStream"] = <<"m1", "requestStream">>

\* the registrations at the time of the last require()
Registered == lastRequire.hooks

\* the number of times require() called the onRequire of registration i
HookCalls(i) ==
    Cardinality({j \in DOMAIN lastRequire.calls :
                    lastRequire.calls[j].hook = i})

\* C15: without OTEL_REQUIRE_ONLY, requiring a core module (no base
\* directory) calls a registered onRequire exactly once, with the exports,
\* the name and an undefined base directory, when its module name is the
\* required name, and not at all otherwise ('fs' and 'fs/promises' do not
\* trigger each other); when no registration has the name, no onRequire is
\* called and the exports are as they were.
C15_CoreModuleHookOnExactName ==
    (requireOnly = Unset /\ lastRequire.name # <<>> /\ lastRequire.core)
    => /\ \A i \in DOMAIN Registered :
             HookCalls(i) = IF Registered[i].moduleName = lastRequire.name
                            THEN 1 ELSE 0
       /\ \A j \in DOMAIN lastRequire.calls :
             /\ lastRequire.calls[j].name = lastRequire.name
             /\ lastRequire.calls[j].basedir = "undefined"
       /\ (\A i \in DOMAIN Registered :
              Registered[i].moduleName # lastRequire.name)
          => /\ lastRequire.calls = <<>>
             /\ lastRequire.exports = <<>>

\* hooks are registered for 'fs' and for 'fs/promises' and 'fs/promises' was
\* required: only its own hook ran
C15_Witness ==
    /\ requireOnly = Unset
    /\ \E i \in DOMAIN Registered : Registered[i].moduleName = <<"fs">>
    /\ \E i \in DOMAIN Registered :
          Registered[i].moduleName = <<"fs", "promises">>
    /\ lastRequire.name = <<"fs", "promises">>
    /\ lastRequire.exports = << <<"fs", "promises">> >>

\* C16: without OTEL_REQUIRE_ONLY, requiring a module that has a base
\* directory calls the onRequire of every registration for its package name
\* and of every registration for its own path, and of no other, in
\* registration order, each with the exports the one before returned; the
\* module's exports are what the last one returned.
C16_PackageAndFileHooksInOrder ==
    (requireOnly = Unset /\ lastRequire.name # <<>> /\ ~lastRequire.core)
    => LET cs == lastRequire.calls IN
       /\ \A i \in DOMAIN Registered :
             HookCalls(i) =
                 IF Registered[i].moduleName \in
                        {<<lastRequire.name[1]>>, lastRequire.name}
                 THEN 1 ELSE 0
       /\ \A j \in DOMAIN cs :
             /\ j > 1 => cs[j - 1].hook < cs[j].hook
             /\ cs[j].exportsIn = IF j = 1 THEN <<>> ELSE cs[j - 1].exportsOut
             /\ cs[j].exportsOut =
                    Append(cs[j].exportsIn, Registered[cs[j].hook].label)
             /\ cs[j].name = lastRequire.name
             /\ cs[j].basedir = "basedir"
       /\ lastRequire.exports =
              IF cs = <<>> THEN <<>> ELSE cs[Len(cs)].exportsOut

\* 'cpx' and 'cpx/lib/copy-sync.js' are registered in this order, next to a
\* hook of another module, and the file was required: its exports carry
\* ['cpx', 'cpx-lib']
C16_Witness ==
    /\ requireOnly = Unset
    /\ \E i \in DOMAIN Registered : Registered[i].moduleName = <<"fs">>
    /\ lastRequire.name = <<"cpx", "lib", "copy-sync.js">>
    /\ ~lastRequire.core
    /\ lastRequire.exports = << <<"cpx">>, <<"cpx", "lib", "copy-sync.js">> >>

\* C17: with OTEL_REQUIRE_ONLY set to a list of names, require() calls an
\* onRequire only when the required module (for a file of a package, its
\* package) is named in the list, and requiring a module named in the list
\* calls every onRequire registered for it.
C17_RequireOnlyRestrictsHooks ==
    (requireOnly # Unset /\ lastRequire.name # <<>>)
    => /\ lastRequire.calls # <<>>
          => /\ lastRequire.name[1] \in requireOnly
             /\ lastRequire.core => lastRequire.name = <<lastRequire.name[1]>>
       /\ (Len(lastRequire.name) = 1 /\ lastRequire.name[1] \in requireOnly)
          => \A i \in DOMAIN Registered :
                Registered[i].moduleName = lastRequire.name
                => HookCalls(i) = 1

\* only 'fs' is listed and hooks are registered for 'fs' and 'cpx':
\* require('fs') ran the 'fs' hook
C17_Witness ==
    /\ requireOnly = {"fs"}
    /\ \E i \in DOMAIN Registered : Registered[i].moduleName = <<"fs">>
    /\ \E i \in DOMAIN Registered : Registered[i].moduleName = <<"cpx">>
    /\ lastRequire.name = <<"fs">>
    /\ lastRequire.exports = << <<"fs">> >>

\* the position of the one occurrence of an operation in a log, 0 when it
\* does not occur exactly once
PositionOf(log, e) ==
    IF Cardinality(Positions(log, e)) = 1
    THEN CHOOSE i \in Positions(log, e) : TRUE
    ELSE 0

\* C18: every traced execution of func extracts the context from the
\* inbound metadata, then starts its span in the extracted context, then
\* captures the request metadata and wraps sendMetadata, then invokes the
\* original handler, exactly once and in a context that is the extracted
\* one with the new span active; the span is ended only after that.
C18_TracedCallStepsInOrder ==
    \A c \in CallIds : \A i \in DOMAIN calls[c].execs :
        LET e == calls[c].execs[i]
            log == calls[c].log
            at(op) == PositionOf(log, [op |-> op, layer |-> e.layer])
        IN  e.traced =>
              /\ 0 < at("extract")
              /\ at("extract") < at("startSpan")
              /\ at("startSpan") < at("captureRequestMetadata")
              /\ at("captureRequestMetadata") < at("wrapSendMetadata")
              /\ at("wrapSendMetadata") < at("originalFunc")
              /\ e.innerCalls = 1
              /\ e.spanParent = Extract(e.ctxIn, e.layer)
              /\ e.innerCtx = SetSpan(e.spanParent, e.layer)
              /\ \A j \in Positions(log, [op |-> "end", layer |-> e.layer]) :
                    at("originalFunc") < j

\* C19: every execution of clientMethodTrace starts exactly one span,
\* captures the request metadata after that and before the delegate, and
\* calls the delegate exactly once, in the caller's context with the new
\* span active; it returns what the delegate returned; the peer name and
\* the peer port are set together when the channel target parses and are
\* both left out, the call going on, when it does not.
C19_ClientTraceStepsAndResult ==
    \A c \in ClientCallIds : \A i \in DOMAIN ccalls[c].execs :
        LET e == ccalls[c].execs[i]
            log == ccalls[c].log
            at(op) == PositionOf(log, [op |-> op, layer |-> e.layer])
            parses == UriRegexExec(ccalls[c].target) # NoGroups
        IN  /\ e.spanStarts = 1
            /\ 0 < at("startSpan")
            /\ at("startSpan") < at("captureRequestMetadata")
            /\ at("captureRequestMetadata") < at("delegate")
            /\ e.delegateCalls = 1
            /\ e.delegateCtx = SetSpan(e.ctxIn, e.layer)
            /\ e.ret = e.delegateRet
            /\ ~e.threw
            /\ parses => /\ e.peerName # "none" /\ e.peerPort # "none"
                         /\ at("startSpan") < at("setPeerName")
                         /\ at("setPeerName") < at("delegate")
                         /\ at("startSpan") < at("setPeerPort")
                         /\ at("setPeerPort") < at("delegate")
            /\ ~parses => /\ e.peerName = "none" /\ e.peerPort = "none"
                          /\ at("setPeerName") = 0
                          /\ at("setPeerPort") = 0
            /\ i = 1 => ccalls[c].ret = e.ret

\* a wrapped method was called on a client whose channel target does not
\* parse: one span, no peer attributes, the call's result returned
C19_Witness ==
    \E c \in ClientCallIds :
        /\ ccalls[c].active
        /\ ccalls[c].target = "unix:/tmp/socket"
        /\ Len(ccalls[c].execs) = 1
        /\ ccalls[c].execs[1].peerName = "none"
        /\ ccalls[c].ret = "callRet"

\* the key list a configuration gives a role and a direction, an absent
\* list counting as empty
ListedKeys(meta, role, direction) ==
    IF \E s \in DOMAIN meta : s = <<role, direction>>
    THEN meta[<<role, direction>>]
    ELSE <<>>

\* C20: at any time the four capture functions held are those of the
\* current configuration, an absent key list counting as empty; a server
\* call, a client call and an invocation of a wrapped sendMetadata use the
\* functions of the configuration in force when they start, all of them
\* from that one configuration.
C20_CaptureFunctionsFollowConfig ==
    /\ \A r \in Roles :
          /\ metadataCapture[r].captureRequestMetadata =
                 [type |-> "request",
                  keys |-> ListedKeys(config.metadataToSpanAttributes, r,
                                      "requestMetadata")]
          /\ metadataCapture[r].captureResponseMetadata =
                 [type |-> "response",
                  keys |-> ListedKeys(config.metadataToSpanAttributes, r,
                                      "responseMetadata")]
    /\ \A c \in CallIds :
          /\ (calls[c].active /\ \E i \in DOMAIN calls[c].execs :
                                    calls[c].execs[i].traced)
             => calls[c].requestCapture =
                   [type |-> "request",
                    keys |-> ListedKeys(calls[c].metaAt, "server",
                                        "requestMetadata")]
          /\ \A i \in DOMAIN calls[c].lastSend.captures :
                calls[c].lastSend.captures[i] =
                   [type |-> "response",
                    keys |-> ListedKeys(calls[c].sendMetaAt, "server",
                                        "responseMetadata")]
    /\ \A c \in ClientCallIds :
          (ccalls[c].active /\ ccalls[c].spanStarts > 0)
          => /\ ccalls[c].requestCapture =
                   [type |-> "request",
                    keys |-> ListedKeys(ccalls[c].metaAt, "client",
                                        "requestMetadata")]
             /\ ccalls[c].responseCapture =
                   [type |-> "response",
                    keys |-> ListedKeys(ccalls[c].metaAt, "client",
                                        "responseMetadata")]

\* a traced call started under one configuration and its sendMetadata was
\* invoked after a reconfiguration: the request keys are the old ones, the
\* response keys the new ones
C20_Witness ==
    \E c \in CallIds :
        /\ calls[c].active
        /\ calls[c].requestCapture = [type |-> "request", keys |-> <<"k1">>]
        /\ calls[c].lastSend.captures # <<>>
        /\ calls[c].sendMetaAt # calls[c].metaAt
        /\ calls[c].sendMetaAt = config.metadataToSpanAttributes
        /\ ConfiguredKeys(config, "server", "requestMetadata") = <<"k2">>

\* C21: after any sequence of calls of the patched register, a second call
\* for a name that has a handler included, the func of every handler entry
\* carries at most one wrapper, and an incoming call creates at most one
\* span.
C21_HandlerFuncHasOneLayer ==
    /\ \A n \in ServerNames : Len(handlers[n].func) <= 1
    /\ \A c \in CallIds : calls[c].active => SpansStarted(calls[c]) <= 1

\* the spans the executions of func for a call have started
OwnSpans(call) ==
    {call.execs[i].span : i \in {j \in DOMAIN call.execs : call.execs[j].traced}}

\* C22: with several traced server calls in flight, in any interleaving,
\* every traced execution of func has a span of its own, no span belongs to
\* two calls, and the request metadata capture, the response metadata
\* capture of the wrapped sendMetadata and the completion of a call set
\* attributes, status and end only on spans of that call.
C22_CallsWorkOnTheirOwnSpans ==
    \A c \in DOMAIN calls :
        /\ Cardinality(OwnSpans(calls[c])) = SpansStarted(calls[c])
        /\ calls[c].touched \subseteq OwnSpans(calls[c])
        /\ \A d \in DOMAIN calls \ {c} :
              OwnSpans(calls[c]) \cap OwnSpans(calls[d]) = {}

\* two traced calls are in flight; the one that started first has had its
\* sendMetadata invoked and has completed after the second one started,
\* and the span of the second one is still open
C22_Witness ==
    /\ DOMAIN calls = ConcCallIds
    /\ \E c, d \in DOMAIN calls :
          /\ c # d
          /\ calls[c].active /\ calls[d].active
          /\ OwnSpans(calls[c]) = {1}
          /\ OwnSpans(calls[d]) = {2}
          /\ calls[c].sends > 0
          /\ calls[c].cbCalls = 1
          /\ calls[c].execs[1].endCalls = 1
          /\ calls[c].touched = {1}
          /\ calls[d].execs[1].endCalls = 0

====
